---- MODULE Spec2Model ----
(***************************************************************************)
(* Model of and-conquer (src/src/lib.rs): the two work dividers            *)
(* divide_equal_work and divide_work, their shared threshold gate and      *)
(* sequential fallback, the worker threads they spawn and the join loops.  *)
(***************************************************************************)
EXTENDS Integers, Sequences, FiniteSets, TLC

\* ---------------------------------------------------------------- bounds
MaxLen == 10          \* longest input vector
MaxEqCores == 11      \* largest num_cpus::get() tried with divide_equal_work
\* num_cpus::get() tried with divide_work: with three workers the ways to deal
\* ten elements to the workers alone are 3^10, times the workers' positions
DWCores == {1, 2}
\* lengths and worker counts of the length-only runs of the split chain
MaxSplitLen == 13
MaxSplitCores == 22

\* ------------------------------------------------------ program constants
PARALLEL_WORK_THRESHOLD == 10

NoFail == -1          \* "f panics on no element"
Uninit == -2          \* an output buffer slot that was never written
None == -3            \* Option::None / no value

\* ----------------------------------------------------- the transformation
\* f of the tests: |x| x + 1
F(x) == x + 1

\* ------------------------------------------------------------ f32 helpers
Pow2(k) == 2 ^ k

\* round-half-to-even of n / d (IEEE default rounding of an inexact result)
RNE(n, d) ==
    LET q == n \div d
        r == n % d
    IN  IF 2 * r > d \/ (2 * r = d /\ q % 2 = 1) THEN q + 1 ELSE q

RECURSIVE ScaleUp(_, _, _)
\* least s >= 0 with n * 2^s >= d * 2^23
ScaleUp(n, d, s) == IF n * Pow2(s) >= d * Pow2(23) THEN s ELSE ScaleUp(n, d, s + 1)

RECURSIVE ScaleDown(_, _)
\* least s >= 0 with p < 2^24 * 2^s
ScaleDown(p, s) == IF p \div Pow2(s) < Pow2(24) THEN s ELSE ScaleDown(p, s + 1)

\* length as f32 / cores as f32 : <<m, e>> stands for m * 2^(-e), m of 24 bits
F32Div(n, d) ==
    IF n = 0 THEN <<0, 0>>
    ELSE LET s == ScaleUp(n, d, 0)
         IN  <<RNE(n * Pow2(s), d), s>>

\* tasks_per_worker * core as f32, rounded to 24 bits
F32Mul(x, k) ==
    LET p == x[1] * k
        s == ScaleDown(p, 0)
    IN  IF p = 0 THEN <<0, 0>> ELSE <<RNE(p, Pow2(s)), x[2] - s>>

\* f32::round (half away from zero) followed by `as usize`
F32Round(x) ==
    IF x[2] <= 0 THEN x[1] * Pow2(-x[2])
    ELSE IF x[2] > 30 THEN 0
    ELSE (x[1] + Pow2(x[2] - 1)) \div Pow2(x[2])

\* the argument of split_off for `core`
SplitIndex(tpw, core) == F32Round(F32Mul(tpw, core))

\* ------------------------------------------------------------------ state
VARIABLES
    fn,               \* which divider the caller invoked
    orig,             \* the caller's input vector, as passed in
    failOn,           \* the element value on which f panics (NoFail: none)
    ncpu,             \* what num_cpus::get() returns
    pc,               \* position of the calling thread (the coordinator)
    input,            \* `input`: what is left of the input vector
    cores,            \* `cores`
    length,           \* `length`
    tasks_per_worker, \* `tasks_per_worker` (f32)
    queue,            \* the Vec inside Arc<Mutex<..>>
    lock,             \* TRUE while some MutexGuard is alive
    worker,           \* worker threads: id -> [pc, val, idx, res, tasks]
    workers,          \* `workers`: ids of the JoinHandles, in push order
    joined,           \* how many JoinHandles the join loop has consumed
    buf,              \* memory behind `res` in divide_work: 0..length-1 -> value
    writes,           \* number of ptr::write calls per buffer position
    resLen,           \* `res.len()` in divide_work
    out,              \* results collected so far (sequential / equal divider)
    result,           \* <<v>> once the Vec v was handed back to the caller, <<>> before
    leaked,           \* buffer positions freed without dropping their value
    ub,               \* an out-of-bounds write or an uninitialised read happened
    gateEvals,        \* how often the threshold was tested
    lockAcquired,     \* number of successful queue.lock() calls
    split             \* the split_off chain run on vector lengths alone

callVars == <<fn, orig, failOn, ncpu, pc, input, cores, length, tasks_per_worker,
              queue, lock, worker, workers, joined, buf, writes, resLen, out,
              result, leaked, ub, gateEvals, lockAcquired>>

vars == <<callVars, split>>

Fails(x) == x = failOn

\* the input vector of length n: 3, 6, 2, 5, 1, 4, 0, 3, 6, 2, ..
\* (element values repeat, so a position is not recoverable from its value)
InputOf(n) == [i \in 1..n |-> (3 * i) % 7]

CoresFor(d) == IF d = "divide_work" THEN DWCores ELSE 1..MaxEqCores

\* values of failOn tried: no failure, or one of the element values
FailChoices == {NoFail, 0, 3}

Unspawned == [pc |-> "unspawned", val |-> None, idx |-> None,
              res |-> <<>>, tasks |-> <<>>]

\* no length-only run of the split chain is under way
NoSplit == [len |-> 0, cores |-> 0, tpw |-> <<0, 0>>, k |-> 0, rest |-> 0,
            parts |-> <<>>, aborted |-> FALSE]

CallInit ==
    /\ fn \in {"divide_work", "divide_equal_work"}
    /\ \E n \in 0..MaxLen : orig = InputOf(n)
    /\ failOn \in FailChoices
    /\ ncpu \in CoresFor(fn)
    /\ pc = "gate"
    /\ input = orig
    /\ cores = 0
    /\ length = 0
    /\ tasks_per_worker = <<0, 0>>
    /\ queue = <<>>
    /\ lock = FALSE
    /\ worker = [w \in 1..ncpu |-> Unspawned]
    /\ workers = <<>>
    /\ joined = 0
    /\ buf = <<>>
    /\ writes = <<>>
    /\ resLen = 0
    /\ out = <<>>
    /\ result = <<>>
    /\ leaked = {}
    /\ ub = FALSE
    /\ gateEvals = 0
    /\ lockAcquired = 0

Init == CallInit /\ split = NoSplit

\* ------------------------------------------------------- threshold gate
\* `input.len() < PARALLEL_WORK_THRESHOLD`
BelowOrAtThreshold(n) == n <= PARALLEL_WORK_THRESHOLD
BelowThreshold(n) == n < PARALLEL_WORK_THRESHOLD

Gate ==
    /\ pc = "gate"
    /\ gateEvals' = gateEvals + 1
    /\ pc' = IF BelowThreshold(Len(input)) THEN "seq" ELSE "setup"
    /\ UNCHANGED <<split, fn, orig, failOn, ncpu, input, cores, length, tasks_per_worker,
                   queue, lock, worker, workers, joined, buf, writes, resLen,
                   out, result, leaked, ub, lockAcquired>>

\* Iterator::collect / Vec::push: results are appended in production order
CollectFront(acc, r) == <<r>> \o acc
Collect(acc, r) == Append(acc, r)

\* --------------------------------------------------- sequential fallback
\* input.into_iter().map(f).collect(): one element per step, front first
SeqStep ==
    /\ pc = "seq"
    /\ IF input = <<>>
         THEN /\ result' = <<out>>
              /\ pc' = "returned"
              /\ UNCHANGED <<input, out>>
         ELSE IF Fails(Head(input))
           THEN /\ pc' = "panicked"
                /\ input' = <<>>
                /\ out' = <<>>
                /\ UNCHANGED result
           ELSE /\ out' = Collect(out, F(Head(input)))
                /\ input' = Tail(input)
                /\ UNCHANGED <<pc, result>>
    /\ UNCHANGED <<split, fn, orig, failOn, ncpu, cores, length, tasks_per_worker,
                   queue, lock, worker, workers, joined, buf, writes, resLen,
                   leaked, ub, gateEvals, lockAcquired>>

\* ------------------------------------------------------------ divide_work
\* let cores = num_cpus::get(); let length = input.len();
\* let queue = Arc::new(Mutex::new(input));
DWSetup ==
    /\ pc = "setup"
    /\ fn = "divide_work"
    /\ cores' = ncpu
    /\ length' = Len(input)
    /\ queue' = input
    /\ input' = <<>>
    /\ pc' = "spawn"
    /\ UNCHANGED <<split, fn, orig, failOn, ncpu, tasks_per_worker, lock, worker,
                   workers, joined, buf, writes, resLen, out, result, leaked,
                   ub, gateEvals, lockAcquired>>

\* one iteration of `for _ in 0..cores { workers.push(thread::spawn(..)) }`;
\* after the last one, let mut res = Vec::with_capacity(length) and
\* let res_mut_ptr = res.as_mut_ptr()
DWSpawn ==
    /\ pc = "spawn"
    /\ fn = "divide_work"
    /\ LET w == Len(workers) + 1
       IN  /\ worker' = [worker EXCEPT ![w].pc = "lock"]
           /\ workers' = Append(workers, w)
           /\ IF w = cores
                THEN /\ buf' = [i \in 0..(length - 1) |-> Uninit]
                     /\ writes' = [i \in 0..(length - 1) |-> 0]
                     /\ resLen' = 0
                     /\ pc' = "join"
                ELSE UNCHANGED <<pc, buf, writes, resLen>>
    /\ UNCHANGED <<split, fn, orig, failOn, ncpu, input, cores, length, tasks_per_worker,
                   queue, lock, joined, out, result, leaked, ub, gateEvals,
                   lockAcquired>>

\* queue.lock() succeeds only while no guard is alive
LockAlways(l) == TRUE
LockFree(l) == ~l

\* let mut q = queue.lock().unwrap();
WLock(w) ==
    /\ worker[w].pc = "lock"
    /\ LockFree(lock)
    /\ lock' = TRUE
    /\ lockAcquired' = lockAcquired + 1
    /\ worker' = [worker EXCEPT ![w].pc = "pop"]
    /\ UNCHANGED <<split, fn, orig, failOn, ncpu, pc, input, cores, length,
                   tasks_per_worker, queue, workers, joined, buf, writes,
                   resLen, out, result, leaked, ub, gateEvals>>

\* Vec::pop: the last element, if any
PopFront(q) == IF q = <<>> THEN None ELSE q[1]
PopValue(q) == IF q = <<>> THEN None ELSE q[Len(q)]
PopRestFront(q) == IF q = <<>> THEN q ELSE Tail(q)
PopRestTwo(q) == IF Len(q) <= 1 THEN <<>> ELSE SubSeq(q, 1, Len(q) - 2)
PopRest(q) == IF q = <<>> THEN q ELSE SubSeq(q, 1, Len(q) - 1)

\* q.len(), read after the pop
IndexReadBeforePop(q) == Len(q) + 1
IndexRead(q) == Len(q)

\* let val = q.pop(); (q.len(), val) and the end of the block, where the
\* guard q is dropped; on (_, None) the `else { break }` arm returns res
WPop(w) ==
    /\ worker[w].pc = "pop"
    /\ worker' = [worker EXCEPT ![w] =
         IF PopValue(queue) = None
           THEN [@ EXCEPT !.pc = "done"]
           ELSE [@ EXCEPT !.pc = "apply", !.val = PopValue(queue),
                          !.idx = IndexRead(PopRest(queue))]]
    /\ queue' = PopRest(queue)
    /\ lock' = FALSE
    /\ UNCHANGED <<split, fn, orig, failOn, ncpu, pc, input, cores, length,
                   tasks_per_worker, workers, joined, buf, writes, resLen,
                   out, result, leaked, ub, gateEvals, lockAcquired>>

\* a transformation whose failure hands the element back to the queue
WApplyRequeue(w) ==
    /\ worker[w].pc = "apply"
    /\ LET wk == worker[w]
       IN  /\ worker' = [worker EXCEPT ![w] =
                 IF Fails(wk.val)
                   THEN [wk EXCEPT !.pc = "panicked", !.val = None, !.idx = None,
                                   !.res = <<>>]
                   ELSE [wk EXCEPT !.pc = "lock", !.val = None, !.idx = None,
                                   !.res = Collect(wk.res, <<wk.idx, F(wk.val)>>)]]
           /\ queue' = IF Fails(wk.val) THEN Append(queue, wk.val) ELSE queue
    /\ UNCHANGED <<split, fn, orig, failOn, ncpu, pc, input, cores, length,
                   tasks_per_worker, lock, workers, joined, buf, writes,
                   resLen, out, result, leaked, ub, gateEvals, lockAcquired>>

\* if let (idx, Some(val)) = value { res.push((idx, f(val))) }
WApply(w) ==
    /\ worker[w].pc = "apply"
    /\ LET wk == worker[w]
       IN  worker' = [worker EXCEPT ![w] =
             IF Fails(wk.val)
               THEN [wk EXCEPT !.pc = "panicked", !.val = None, !.idx = None,
                               !.res = <<>>]
               ELSE [wk EXCEPT !.pc = "lock", !.val = None, !.idx = None,
                               !.res = Collect(wk.res, <<wk.idx, F(wk.val)>>)]]
    /\ UNCHANGED <<split, fn, orig, failOn, ncpu, pc, input, cores, length,
                   tasks_per_worker, queue, lock, workers, joined, buf, writes,
                   resLen, out, result, leaked, ub, gateEvals, lockAcquired>>

\* a thread can be joined once it has returned or panicked
TerminatedAlways(wk) == TRUE
Terminated(wk) == wk.pc \in {"done", "panicked"}

\* w.join() is Ok(..) when the thread returned, Err(..) when it panicked
JoinAlwaysOk(wk) == TRUE
JoinOk(wk) == wk.pc = "done"

\* std::ptr::write(res_mut_ptr.add(idx), r) on memory m = [buf, writes, ub]
PtrWriteNoAdd(m, idx, r) ==
    IF 0 \in DOMAIN m.buf
      THEN [buf |-> [m.buf EXCEPT ![0] = r],
            writes |-> [m.writes EXCEPT ![0] = @ + 1],
            ub |-> m.ub]
      ELSE [m EXCEPT !.ub = TRUE]
PtrWrite(m, idx, r) ==
    IF idx \in DOMAIN m.buf
      THEN [buf |-> [m.buf EXCEPT ![idx] = r],
            writes |-> [m.writes EXCEPT ![idx] = @ + 1],
            ub |-> m.ub]
      ELSE [m EXCEPT !.ub = TRUE]

RECURSIVE WriteAll(_, _)
\* for (idx, r) in worker_res { ptr::write(..) }
WriteAll(m, pairs) ==
    IF pairs = <<>> THEN m
    ELSE CHOOSE r \in {WriteAll(n, Tail(pairs)) :
                         n \in {PtrWrite(m, Head(pairs)[1], Head(pairs)[2])}} : TRUE

\* dropping a Vec of length len drops its first len slots only: the written
\* slots beyond len are freed without being dropped
VecDropLeaks(wr, len) == {i \in DOMAIN wr : wr[i] > 0 /\ i >= len}

\* a join loop that takes the pairs of a worker without waiting for it
DWJoinEager ==
    /\ pc = "join"
    /\ fn = "divide_work"
    /\ joined < Len(workers)
    /\ LET w == workers[joined + 1]
           m == WriteAll([buf |-> buf, writes |-> writes, ub |-> ub], worker[w].res)
       IN  IF worker[w].pc # "panicked"
             THEN /\ buf' = m.buf
                  /\ writes' = m.writes
                  /\ ub' = m.ub
                  /\ joined' = joined + 1
                  /\ pc' = IF joined + 1 = Len(workers) THEN "set_len" ELSE "join"
                  /\ UNCHANGED leaked
             ELSE /\ pc' = "panicked"
                  /\ leaked' = VecDropLeaks(writes, resLen)
                  /\ UNCHANGED <<buf, writes, ub, joined>>
    /\ UNCHANGED <<split, fn, orig, failOn, ncpu, input, cores, length, tasks_per_worker,
                   queue, lock, worker, workers, resLen, out, result,
                   gateEvals, lockAcquired>>

\* one iteration of `for w in workers { match w.join() {..} }`
DWJoin ==
    /\ pc = "join"
    /\ fn = "divide_work"
    /\ joined < Len(workers)
    /\ LET w == workers[joined + 1]
           m == WriteAll([buf |-> buf, writes |-> writes, ub |-> ub], worker[w].res)
       IN  /\ Terminated(worker[w])
           /\ IF JoinOk(worker[w])
                THEN /\ buf' = m.buf
                     /\ writes' = m.writes
                     /\ ub' = m.ub
                     /\ joined' = joined + 1
                     /\ pc' = IF joined + 1 = Len(workers) THEN "set_len" ELSE "join"
                     /\ UNCHANGED leaked
                ELSE /\ pc' = "panicked"
                     /\ leaked' = VecDropLeaks(writes, resLen)
                     /\ UNCHANGED <<buf, writes, ub, joined>>
    /\ UNCHANGED <<split, fn, orig, failOn, ncpu, input, cores, length, tasks_per_worker,
                   queue, lock, worker, workers, resLen, out, result,
                   gateEvals, lockAcquired>>

\* the Vec of the first len slots of the buffer
VecOf(b, len) == [i \in 1..len |-> IF (i - 1) \in DOMAIN b THEN b[i - 1] ELSE Uninit]

\* unsafe { res.set_len(length) }; res
DWSetLen ==
    /\ pc = "set_len"
    /\ resLen' = length
    /\ result' = <<VecOf(buf, length)>>
    /\ ub' = (ub \/ \E i \in 0..(length - 1) : i \notin DOMAIN writes \/ writes[i] = 0)
    /\ pc' = "returned"
    /\ UNCHANGED <<split, fn, orig, failOn, ncpu, input, cores, length, tasks_per_worker,
                   queue, lock, worker, workers, joined, buf, writes, out,
                   leaked, gateEvals, lockAcquired>>

\* ------------------------------------------------------ divide_equal_work
\* let cores = num_cpus::get(); let length = input.len();
\* let tasks_per_worker = length as f32 / cores as f32;
EQSetup ==
    /\ pc = "setup"
    /\ fn = "divide_equal_work"
    /\ cores' = ncpu
    /\ length' = Len(input)
    /\ tasks_per_worker' = F32Div(Len(input), ncpu)
    /\ pc' = "spawn"
    /\ UNCHANGED <<split, fn, orig, failOn, ncpu, input, queue, lock, worker, workers,
                   joined, buf, writes, resLen, out, result, leaked, ub,
                   gateEvals, lockAcquired>>

\* the core handled by the k-th step (k = 0, 1, ..) of (0..cores).rev()
RevCoreFromN(n, k) == n - k
ForwardCore(n, k) == k
RevCore(n, k) == n - 1 - k

\* Vec::split_off(at): <<what stays, what is returned>>
SplitOff(v, at) == <<SubSeq(v, 1, at), SubSeq(v, at + 1, Len(v))>>

\* one step of the lazy chain .rev().map(split_off).map(spawn).collect()
EQSpawn ==
    /\ pc = "spawn"
    /\ fn = "divide_equal_work"
    /\ LET w == Len(workers) + 1
           core == RevCore(cores, Len(workers))
           at == SplitIndex(tasks_per_worker, core)
           parts == SplitOff(input, at)
       IN  IF at > Len(input)
             THEN \* split_off panics: `at > len`
                  /\ pc' = "panicked"
                  /\ input' = <<>>
                  /\ UNCHANGED <<worker, workers>>
             ELSE /\ input' = parts[1]
                  /\ worker' = [worker EXCEPT ![w].pc = "run", ![w].tasks = parts[2]]
                  /\ workers' = Append(workers, w)
                  /\ pc' = IF w = cores THEN "join" ELSE "spawn"
    /\ UNCHANGED <<split, fn, orig, failOn, ncpu, cores, length, tasks_per_worker, queue,
                   lock, joined, buf, writes, resLen, out, result, leaked, ub,
                   gateEvals, lockAcquired>>

\* tasks.into_iter().map(f).collect::<Vec<_>>(): one element per step; the
\* thread returns with the last element
EWStep(w) ==
    /\ worker[w].pc = "run"
    /\ LET wk == worker[w]
       IN  worker' = [worker EXCEPT ![w] =
             IF wk.tasks = <<>>
               THEN [wk EXCEPT !.pc = "done"]
             ELSE IF Fails(Head(wk.tasks))
               THEN [wk EXCEPT !.pc = "panicked", !.tasks = <<>>, !.res = <<>>]
               ELSE [wk EXCEPT !.pc = IF Len(wk.tasks) = 1 THEN "done" ELSE "run",
                               !.tasks = Tail(wk.tasks),
                               !.res = Collect(wk.res, F(Head(wk.tasks)))]]
    /\ UNCHANGED <<split, fn, orig, failOn, ncpu, pc, input, cores, length,
                   tasks_per_worker, queue, lock, workers, joined, buf, writes,
                   resLen, out, result, leaked, ub, gateEvals, lockAcquired>>

\* the handle consumed by the k-th step (k = 0, 1, ..) of workers.into_iter().rev()
ForwardHandle(ws, k) == ws[k + 1]
RevHandle(ws, k) == ws[Len(ws) - k]

\* one step of .rev().map(|w| w.join().unwrap_or_else(panic).into_iter())
\* .flatten().collect()
EQJoin ==
    /\ pc = "join"
    /\ fn = "divide_equal_work"
    /\ joined < Len(workers)
    /\ LET w == RevHandle(workers, joined)
       IN  /\ Terminated(worker[w])
           /\ IF JoinOk(worker[w])
                THEN /\ out' = out \o worker[w].res
                     /\ joined' = joined + 1
                     /\ IF joined + 1 = Len(workers)
                          THEN pc' = "returned" /\ result' = <<out'>>
                          ELSE pc' = "join" /\ UNCHANGED result
                ELSE /\ pc' = "panicked"
                     /\ out' = <<>>
                     /\ UNCHANGED <<joined, result>>
    /\ UNCHANGED <<split, fn, orig, failOn, ncpu, input, cores, length, tasks_per_worker,
                   queue, lock, worker, workers, buf, writes, resLen, leaked,
                   ub, gateEvals, lockAcquired>>

\* ---------------------------------------------------------- specification
Next ==
    \/ Gate
    \/ SeqStep
    \/ DWSetup
    \/ DWSpawn
    \/ DWJoin
    \/ DWSetLen
    \/ EQSetup
    \/ EQSpawn
    \/ EQJoin
    \/ \E w \in DOMAIN worker : WLock(w)
    \/ \E w \in DOMAIN worker : WPop(w)
    \/ \E w \in DOMAIN worker : WApply(w)
    \/ \E w \in DOMAIN worker : EWStep(w)

Spec == Init /\ [][Next]_vars

\* calls on which f fails nowhere, under a scheduler that runs some thread
\* that can take a step: a worker that is not blocked on the lock, or the
\* coordinator when the thread it joins has ended
FairInit == Init /\ failOn = NoFail

FairSpec == FairInit /\ [][Next]_vars /\ WF_vars(Next)

\* ------------------------------------------------------------- properties
\* what the sequential application of f to the caller's input yields
Expected == [i \in 1..Len(orig) |-> F(orig[i])]

NoElementFails == \A i \in 1..Len(orig) : ~Fails(orig[i])

Parallel == Len(orig) >= PARALLEL_WORK_THRESHOLD

Spawned == {w \in DOMAIN worker : worker[w].pc # "unspawned"}

\* C1: divide_work on an input of length >= 10 on which f fails nowhere never
\* panics, and the vector it returns has the input's length and holds
\* f(input[i]) at every position i, whichever worker popped which element.
C1_DivideWorkOrdered ==
    (fn = "divide_work" /\ Parallel /\ NoElementFails) =>
        /\ pc # "panicked"
        /\ \A w \in DOMAIN worker : worker[w].pc # "panicked"
        /\ pc = "returned" =>
             /\ Len(result[1]) = Len(orig)
             /\ \A i \in 1..Len(orig) : result[1][i] = F(orig[i])

\* a returned divide_work call to which two workers contributed results
C1_Witness ==
    /\ fn = "divide_work" /\ Parallel /\ pc = "returned"
    /\ result = <<Expected>>
    /\ ncpu >= 2
    /\ Len(worker[1].res) >= 2
    /\ Len(worker[2].res) >= 2

RECURSIVE MapF(_)
MapF(v) == IF v = <<>> THEN <<>> ELSE <<F(Head(v))>> \o MapF(Tail(v))

RECURSIVE PartialsFrom(_)
\* the results produced or still owed by the workers w, w-1, .., 1, i.e. by
\* the partitions in ascending order of their core
PartialsFrom(w) ==
    IF w = 0 THEN <<>>
    ELSE (worker[w].res \o MapF(worker[w].tasks)) \o PartialsFrom(w - 1)

\* C2: divide_equal_work on an input of length >= 10 on which f fails nowhere
\* never panics and returns f(input[i]) at every position i; the partitions
\* are cut from the end of the input, so that the workers taken in reverse
\* spawn order cover the cut-off suffix in order, and what has been collected
\* at any time is the result for a prefix of the input.
C2_DivideEqualOrdered ==
    (fn = "divide_equal_work" /\ Parallel /\ NoElementFails) =>
        /\ pc # "panicked"
        /\ \A w \in DOMAIN worker : worker[w].pc # "panicked"
        /\ pc \in {"spawn", "join", "returned"} =>
             /\ input = SubSeq(orig, 1, Len(input))
             /\ PartialsFrom(Len(workers))
                  = MapF(SubSeq(orig, Len(input) + 1, Len(orig)))
        /\ out = MapF(SubSeq(orig, 1, Len(out)))
        /\ pc = "returned" =>
             /\ Len(result[1]) = Len(orig)
             /\ \A i \in 1..Len(orig) : result[1][i] = F(orig[i])

\* a returned divide_equal_work call with three non-empty partitions
C2_Witness ==
    /\ fn = "divide_equal_work" /\ Parallel /\ pc = "returned"
    /\ result = <<Expected>>
    /\ ncpu = 3
    /\ \A w \in 1..3 : Len(worker[w].res) >= 3

\* C3: when f fails on some element of an input of length >= 10, neither
\* divider ever returns: no vector is handed to the caller, the length of the
\* divide_work buffer is never set, and the coordinator never gets past its
\* join loop; when nothing can run any more, the call has panicked.
C3_AllOrNothing ==
    (Parallel /\ ~NoElementFails) =>
        /\ result = <<>>
        /\ pc \notin {"returned", "set_len"}
        /\ resLen = 0
        /\ joined < ncpu
        /\ ~ENABLED Next => pc = "panicked"

\* the call has panicked although some worker returned a non-empty partial result
C3_Witness ==
    /\ Parallel /\ pc = "panicked"
    /\ \E w \in Spawned : worker[w].pc = "done" /\ worker[w].res # <<>>

\* C4 (as claimed): whenever the call has panicked on the parallel path,
\* every spawned worker has terminated and its handle has been consumed by
\* the join loop, so that no worker is running or detached.
C4_PanicAfterAllJoined ==
    (Parallel /\ pc = "panicked") =>
        /\ \A w \in Spawned : Terminated(worker[w])
        /\ joined + 1 >= Len(workers)

\* C5: in divide_work every index a worker holds, in flight or recorded, is
\* below length and is the original position of the element popped with it;
\* no index is held twice over all workers; once every worker has returned
\* the recorded indices are exactly 0..length-1.
HeldBy(w) ==
    {worker[w].res[k][1] : k \in 1..Len(worker[w].res)}
      \cup (IF worker[w].pc = "apply" THEN {worker[w].idx} ELSE {})

HeldCount(w) ==
    Len(worker[w].res) + (IF worker[w].pc = "apply" THEN 1 ELSE 0)

RECURSIVE SumHeld(_)
SumHeld(w) == IF w = 0 THEN 0 ELSE HeldCount(w) + SumHeld(w - 1)

C5_IndexAssignment ==
    (fn = "divide_work" /\ Parallel) =>
        /\ \A w \in DOMAIN worker :
             /\ \A k \in 1..Len(worker[w].res) :
                  /\ worker[w].res[k][1] \in 0..(length - 1)
                  /\ worker[w].res[k][2] = F(orig[worker[w].res[k][1] + 1])
             /\ worker[w].pc = "apply" =>
                  /\ worker[w].idx \in 0..(length - 1)
                  /\ worker[w].val = orig[worker[w].idx + 1]
        /\ Cardinality(UNION {HeldBy(w) : w \in DOMAIN worker}) = SumHeld(ncpu)
        /\ (\A w \in DOMAIN worker : worker[w].pc = "done") =>
             UNION {HeldBy(w) : w \in DOMAIN worker} = 0..(length - 1)

\* all workers have returned, each with a share of the indices, and the
\* element values 3, 6 and 2 were each popped at two different positions
C5_Witness ==
    /\ fn = "divide_work" /\ Parallel /\ ncpu >= 2
    /\ \A w \in DOMAIN worker : worker[w].pc = "done" /\ Len(worker[w].res) >= 1
    /\ HeldBy(1) \cap {0, 7} # {}
    /\ HeldBy(2) \cap {0, 7} # {}

\* C6: the length of the divide_work buffer is set, and the buffer returned,
\* only when each of its positions has been written exactly once; no position
\* is ever written twice or out of bounds; once a worker has panicked the
\* length stays 0 and nothing is returned.
C6_BufferInitialised ==
    fn = "divide_work" =>
        /\ ~ub
        /\ \A i \in DOMAIN writes : writes[i] <= 1
        /\ (resLen # 0 \/ (Parallel /\ result # <<>>)) =>
             /\ resLen = length
             /\ DOMAIN writes = 0..(length - 1)
             /\ \A i \in 0..(length - 1) : writes[i] = 1 /\ buf[i] # Uninit
        /\ (\E w \in DOMAIN worker : worker[w].pc = "panicked") =>
             resLen = 0 /\ result = <<>> /\ pc # "returned"

\* the buffer was returned after the second worker's pairs were written over
\* a buffer that already held the first worker's
C6_Witness ==
    /\ fn = "divide_work" /\ pc = "returned" /\ resLen = length /\ length >= 10
    /\ \A i \in 0..(length - 1) : writes[i] = 1
    /\ ncpu >= 2 /\ joined = ncpu
    /\ Len(worker[1].res) = 1

\* C7: workers exist only for inputs of length >= 10; the threshold is tested
\* once, before the queue is created or the input is split; lengths below 10
\* go to the sequential path and lengths from 10 on to the parallel one, where
\* the spawn loop ends with exactly num_cpus::get() workers.
C7_ThresholdGate ==
    /\ gateEvals <= 1
    /\ gateEvals = 0 =>
         pc = "gate" /\ input = orig /\ queue = <<>> /\ workers = <<>>
    /\ Spawned = 1..Len(workers)
    /\ Len(workers) <= ncpu
    /\ Spawned # {} => Parallel
    /\ pc = "seq" => ~Parallel
    /\ pc \in {"setup", "spawn", "join", "set_len"} => Parallel
    /\ (Parallel /\ pc \notin {"gate", "setup", "spawn"}) => Len(workers) = ncpu
    /\ (~Parallel) => Len(workers) = 0

\* an input of exactly 10 elements for which 11 workers were spawned
C7_Witness ==
    /\ Len(orig) = PARALLEL_WORK_THRESHOLD
    /\ ncpu > Len(orig)
    /\ Len(workers) = ncpu
    /\ pc = "join"

\* C8: on an input shorter than 10, either divider spawns no worker and never
\* takes the lock; what it has collected is f applied to a prefix of the input
\* in input order, and what it returns is f applied to the whole input (the
\* empty vector for the empty input), the same for both dividers; it panics
\* only if f fails on an element.
C8_SequentialFallback ==
    (~Parallel) =>
        /\ Spawned = {}
        /\ workers = <<>>
        /\ lockAcquired = 0 /\ ~lock
        /\ pc \in {"gate", "seq", "returned", "panicked"}
        /\ out = MapF(SubSeq(orig, 1, Len(out)))
        /\ pc = "returned" => result = <<Expected>>
        /\ pc = "panicked" => ~NoElementFails
        /\ (pc = "returned" /\ orig = <<>>) => result = << <<>> >>

\* a nine-element input was returned transformed by the sequential path
C8_Witness ==
    /\ Len(orig) = PARALLEL_WORK_THRESHOLD - 1
    /\ pc = "returned"
    /\ result = <<Expected>>
    /\ gateEvals = 1

\* C9 (as claimed): when a call on the parallel path has panicked, no result
\* value that was written into the output buffer has been freed without being
\* dropped, and no uninitialised position was read or released.
C9_NoLeakOnFailure ==
    (Parallel /\ pc = "panicked") => (leaked = {} /\ ~ub)

\* the workers that are between queue.lock() and the end of the block
Holders == {w \in DOMAIN worker : worker[w].pc = "pop"}

\* C10: at most one worker of divide_work holds the queue lock, the lock is
\* taken exactly while some worker is at its pop, and a worker that applies f
\* or has terminated holds no lock.
C10_LockScope ==
    /\ Cardinality(Holders) <= 1
    /\ lock <=> Holders # {}
    /\ \A w \in DOMAIN worker :
         worker[w].pc \in {"apply", "done", "panicked"} => w \notin Holders
    /\ lockAcquired > 0 => fn = "divide_work" /\ Parallel

\* two workers apply f at the same time, a third party could take the lock
C10_Witness ==
    /\ fn = "divide_work"
    /\ \E v, w \in DOMAIN worker :
         v # w /\ worker[v].pc = "apply" /\ worker[w].pc = "apply"
    /\ ~lock

\* C11: when f fails on no element of an input of length >= 10, a fairly
\* scheduled call ends up returned with every worker terminated; the call is
\* never returned while a spawned worker is still running, and a state in
\* which no thread can step is a finished call with the lock free.
C11_Termination ==
    /\ <>((Parallel /\ NoElementFails) =>
           (pc = "returned" /\ \A w \in DOMAIN worker : worker[w].pc = "done"))
    /\ [](pc = "returned" => \A w \in Spawned : Terminated(worker[w]))
    /\ []((~ENABLED Next) => (pc \in {"returned", "panicked"} /\ ~lock))

\* a returned parallel call of divide_work whose two workers both terminated
\* after having waited for the lock at least eleven times in total
C11_Witness ==
    /\ Parallel /\ NoElementFails /\ pc = "returned"
    /\ fn = "divide_work" /\ ncpu = 2
    /\ \A w \in DOMAIN worker : worker[w].pc = "done"
    /\ lockAcquired = Len(orig) + ncpu

\* ------------------------------------------- the split chain on lengths
\* The partition boundaries of divide_equal_work depend on the length of the
\* input and the number of workers alone.  This specification runs the
\* chain (0..cores).rev().map(split_off) on the length of the remaining
\* input, so that long vectors and many workers are within reach.

\* long inputs on many-core machines
LargeSplits == {<<1000, 7>>, <<65537, 12>>, <<944567, 108>>, <<3962663, 72>>}

SplitCases ==
    {<<l, n>> : l \in PARALLEL_WORK_THRESHOLD..MaxSplitLen, n \in 1..MaxSplitCores}
        \cup LargeSplits

\* cores, length and tasks_per_worker as computed before the chain starts
SplitStart(l, n) == [len |-> l, cores |-> n, tpw |-> F32Div(l, n), k |-> 0,
                     rest |-> l, parts |-> <<>>, aborted |-> FALSE]

SplitInit ==
    /\ CallInit
    /\ fn = "divide_equal_work" /\ orig = <<>> /\ failOn = NoFail /\ ncpu = 1
    /\ \E c \in SplitCases : split = SplitStart(c[1], c[2])

\* one input.split_off(at): the positions [at, rest) leave the input, which
\* keeps [0, at); split_off panics when at > len
SplitStep ==
    /\ ~split.aborted
    /\ split.k < split.cores
    /\ LET core == RevCore(split.cores, split.k)
           at == SplitIndex(split.tpw, core)
       IN  IF at > split.rest
             THEN split' = [split EXCEPT !.aborted = TRUE]
             ELSE split' = [split EXCEPT !.k = @ + 1, !.rest = at,
                                         !.parts = Append(@, <<at, split.rest>>)]
    /\ UNCHANGED callVars

SplitNext == SplitStep

SplitSpec == SplitInit /\ [][SplitNext]_vars

\* round(len * k / n) in exact arithmetic, halves rounded up
ExactBoundary(len, k, n) == (2 * len * k + n) \div (2 * n)

\* the core whose partition was extracted as j-th
SplitCore(j) == RevCore(split.cores, j - 1)

\* C12: in divide_equal_work, for every length >= 10 and every number of
\* workers N >= 1, the partition of core k is the contiguous range of
\* positions [boundary(k), boundary(k+1)) with boundary(k) = round(length*k/N),
\* boundary(0) = 0 and boundary(N) = length, and the sizes of any two
\* partitions differ by at most one element.
C12_PartitionShape ==
    /\ ~split.aborted
    /\ \A j \in 1..Len(split.parts) :
          /\ split.parts[j][1] = ExactBoundary(split.len, SplitCore(j), split.cores)
          /\ split.parts[j][2] = ExactBoundary(split.len, SplitCore(j) + 1, split.cores)
    /\ \A i, j \in 1..Len(split.parts) :
          (split.parts[i][2] - split.parts[i][1])
             - (split.parts[j][2] - split.parts[j][1]) \in {-1, 0, 1}

\* the pairs a worker holds after popping the last j elements of the input
\* one after the other, from the last one down
PoppedFromEnd(j) ==
    [i \in 1..j |-> <<Len(orig) - i, F(orig[Len(orig) - i + 1])>>]

\* C13: with one available core and an input of length >= 10, both dividers
\* take the parallel path with exactly one worker and, when they return,
\* return f(input[i]) at every position i; the single worker of divide_work
\* processes the elements from the last to the first, and the single
\* partition of divide_equal_work is the whole input.
C13_SingleWorker ==
    (Parallel /\ ncpu = 1) =>
        /\ pc # "seq"
        /\ Len(workers) <= 1
        /\ pc \in {"join", "set_len", "returned"} => (cores = 1 /\ workers = <<1>>)
        /\ pc = "returned" => result = <<Expected>>
        /\ NoElementFails => pc # "panicked"
        /\ (fn = "divide_work" /\ worker[1].pc \notin {"unspawned", "panicked"}) =>
              /\ worker[1].res = PoppedFromEnd(Len(worker[1].res))
              /\ worker[1].pc = "apply" =>
                    /\ worker[1].idx = Len(orig) - Len(worker[1].res) - 1
                    /\ worker[1].val = orig[worker[1].idx + 1]
        /\ (fn = "divide_equal_work" /\ worker[1].pc \notin {"unspawned", "panicked"}) =>
              /\ input = <<>>
              /\ Len(worker[1].res) + Len(worker[1].tasks) = Len(orig)
              /\ worker[1].res \o MapF(worker[1].tasks) = Expected

\* divide_work has returned the ordered result of a single worker, which
\* pushed the results from the last index down to index 0
C13_Witness ==
    /\ Parallel /\ ncpu = 1 /\ fn = "divide_work" /\ pc = "returned"
    /\ result = <<Expected>>
    /\ Len(worker[1].res) = Len(orig)
    /\ worker[1].res[1][1] = Len(orig) - 1
    /\ worker[1].res[Len(orig)][1] = 0

\* the workers of divide_work that have neither returned nor panicked
Surviving == {w \in DOMAIN worker : worker[w].pc \in {"lock", "pop", "apply"}}

\* worker w can take a step, or waits for a live lock holder that can
CanProceed(w) ==
    \/ ENABLED (WLock(w) \/ WPop(w) \/ WApply(w))
    \/ /\ worker[w].pc = "lock"
       /\ \E v \in DOMAIN worker : worker[v].pc = "pop" /\ ENABLED WPop(v)

\* the shared queue of divide_work exists
QueueShared == fn = "divide_work" /\ Parallel /\ pc \notin {"gate", "setup"}

\* what a step of divide_work does to the queue and to failing workers
NoCancellationStep ==
    QueueShared =>
        /\ Len(queue') <= Len(queue)
        /\ \A w \in DOMAIN worker :
              /\ (worker[w].pc # "panicked" /\ worker'[w].pc = "panicked") =>
                    /\ worker[w].pc = "apply"
                    /\ Fails(worker[w].val)
                    /\ queue' = queue
                    /\ lock' = lock
                    /\ \A v \in DOMAIN worker \ {w} : worker'[v] = worker[v]
              /\ (worker[w].pc # "apply" /\ worker'[w].pc = "apply") =>
                    /\ Len(queue') = Len(queue) - 1
                    /\ worker'[w].idx = Len(queue')
                    /\ worker'[w].val = queue[Len(queue)]

\* C14: in divide_work a worker fails only while applying f and never while
\* it holds the queue lock, so the lock is held by a live worker whenever it
\* is held and a failed worker keeps nobody from acquiring it; every
\* surviving worker can go on and returns only after it has seen the queue
\* empty; the element on which a worker failed is not put back into the
\* queue and, the queue never growing, is handed to no other worker.
C14_NoCancellation ==
    /\ []((fn = "divide_work" /\ Parallel) =>
            /\ lock => Cardinality({w \in DOMAIN worker : worker[w].pc = "pop"}) = 1
            /\ \A w \in DOMAIN worker :
                  /\ (worker[w].pc = "lock" /\ ~lock) => ENABLED WLock(w)
                  /\ worker[w].pc = "done" => queue = <<>>
            /\ \A w \in Surviving : CanProceed(w))
    /\ [][NoCancellationStep]_vars

\* one worker of divide_work failed on the only failing element and the
\* other one has processed all the other elements and returned
C14_Witness ==
    /\ fn = "divide_work" /\ Parallel /\ ncpu = 2 /\ failOn = 0
    /\ worker[1].pc = "panicked"
    /\ worker[2].pc = "done"
    /\ Len(worker[2].res) = Len(orig) - 1
    /\ queue = <<>>

\* the workers whose handles the join loop has consumed
Joined == {workers[j] : j \in 1..joined}

\* the buffer positions a worker's pairs name
IndicesOf(w) == {worker[w].res[k][1] : k \in 1..Len(worker[w].res)}

\* who writes the buffer of divide_work and who touches a partial result list
BufferWriteStep ==
    QueueShared =>
        /\ (pc = "join" /\ (buf' # buf \/ writes' # writes)) =>
              LET w == workers[joined + 1]
              IN  /\ worker[w].pc = "done"
                  /\ joined' = joined + 1
                  /\ worker' = worker
                  /\ \A i \in DOMAIN writes :
                        IF i \in IndicesOf(w)
                          THEN writes[i] = 0 /\ writes'[i] = 1
                          ELSE writes'[i] = writes[i] /\ buf'[i] = buf[i]
        /\ pc # "join" => (pc' = "join" \/ (buf' = buf /\ writes' = writes))
        /\ \A w \in DOMAIN worker :
              worker'[w].res # worker[w].res =>
                  /\ worker[w].pc = "apply"
                  /\ w \notin Joined
                  /\ <<pc, buf, writes, joined>>' = <<pc, buf, writes, joined>>
                  /\ \A v \in DOMAIN worker \ {w} : worker'[v] = worker[v]

\* C15: the output buffer of divide_work is written by the join loop of the
\* coordinator alone; the pairs of a worker are written in the step that
\* joins it, after it has returned, and until then only the worker itself
\* changes its list of pairs; every position is written at most once, and
\* only with a pair of a joined worker.
C15_RaceFreeWrites ==
    /\ []((QueueShared /\ pc # "spawn") =>
            /\ \A w \in Joined : worker[w].pc = "done"
            /\ \A i \in DOMAIN writes :
                  /\ writes[i] <= 1
                  /\ writes[i] = 1 => \E w \in Joined : i \in IndicesOf(w)
            /\ \A w \in DOMAIN worker \ Joined : \A i \in IndicesOf(w) : writes[i] = 0)
    /\ [][BufferWriteStep]_vars

\* the pairs of the first worker are in the buffer while the second worker,
\* not yet joined, is still transforming an element
C15_Witness ==
    /\ fn = "divide_work" /\ Parallel /\ ncpu = 2 /\ pc = "join"
    /\ joined = 1
    /\ Len(worker[1].res) >= 2
    /\ \A i \in IndicesOf(1) : writes[i] = 1
    /\ worker[2].pc = "apply"
    /\ Len(worker[2].res) >= 2

\* what a step does to the shared queue of divide_work
QueueStep ==
    QueueShared =>
        /\ Len(queue') <= Len(queue)
        /\ queue' # queue =>
              /\ lock /\ ~lock'
              /\ queue' = SubSeq(queue, 1, Len(queue) - 1)
              /\ \E w \in DOMAIN worker :
                    /\ worker[w].pc = "pop" /\ worker'[w].pc = "apply"
                    /\ worker'[w].val = queue[Len(queue)]
        /\ \A w \in DOMAIN worker :
              /\ (worker[w].pc = "pop" /\ worker'[w].pc = "apply") =>
                    Len(queue') = Len(queue) - 1
              /\ (worker[w].pc = "pop" /\ worker'[w].pc = "done") =>
                    (queue = <<>> /\ queue' = <<>>)

\* C16: on the parallel path of divide_work the shared queue is at all times
\* the prefix of the original input of the queue's length; the queue changes
\* only by a pop from its end made by the worker holding the lock, so that
\* its length never grows and shrinks by exactly one with every pop that
\* yields an element.
C16_QueuePrefix ==
    /\ [](QueueShared =>
            /\ Len(queue) <= Len(orig)
            /\ queue = SubSeq(orig, 1, Len(queue)))
    /\ [][QueueStep]_vars

\* half of the input has been popped and a worker holds the lock for more
C16_Witness ==
    /\ fn = "divide_work" /\ Parallel /\ ncpu = 2
    /\ Len(queue) = 5
    /\ queue = SubSeq(orig, 1, 5)
    /\ lock
    /\ worker[1].pc = "pop"
    /\ worker[2].pc = "apply"

\* elements popped and not yet transformed
InFlight == {w \in DOMAIN worker : worker[w].pc = "apply"}

RECURSIVE PrivatePairs(_)
\* number of pairs in the lists of the workers 1..w the join loop has not
\* taken over yet
PrivatePairs(w) ==
    IF w = 0 THEN 0
    ELSE (IF w \in Joined THEN 0 ELSE Len(worker[w].res)) + PrivatePairs(w - 1)

RECURSIVE WritesBelow(_)
\* number of writes made to the buffer positions 0..n-1
WritesBelow(n) ==
    IF n = 0 \/ pc = "spawn" THEN 0 ELSE writes[n - 1] + WritesBelow(n - 1)

\* the positions of the elements that are in the queue, in flight, in a
\* private list or in the buffer
Accounted ==
    (0..(Len(queue) - 1))
      \cup {worker[w].idx : w \in InFlight}
      \cup UNION {IndicesOf(w) : w \in DOMAIN worker \ Joined}
      \cup (IF pc = "spawn" THEN {} ELSE {i \in DOMAIN writes : writes[i] > 0})

\* C17: while no worker of divide_work has failed, the elements in the
\* queue, the elements popped and being transformed, and the pairs in the
\* workers' lists or in the buffer add up to the input length and stand for
\* the positions 0..length-1, each once; when every worker has returned the
\* queue is empty and there are exactly `length` pairs.
C17_Conservation ==
    (QueueShared /\ \A w \in DOMAIN worker : worker[w].pc # "panicked") =>
        /\ Len(queue) + Cardinality(InFlight) + PrivatePairs(ncpu)
              + WritesBelow(length) = length
        /\ length = Len(orig)
        /\ Accounted = 0..(length - 1)
        /\ (\A w \in DOMAIN worker : worker[w].pc = "done") =>
              /\ queue = <<>>
              /\ PrivatePairs(ncpu) + WritesBelow(length) = length

\* elements in the queue, in flight with both workers and in both lists
C17_Witness ==
    /\ fn = "divide_work" /\ Parallel /\ ncpu = 2 /\ failOn = NoFail
    /\ Len(queue) = 4
    /\ InFlight = {1, 2}
    /\ Len(worker[1].res) = 1
    /\ Len(worker[2].res) = 3

\* C18: in divide_equal_work, for every length >= 10 and every number of
\* workers N >= 1, the split indices computed for core = N-1 down to 0 are
\* non-decreasing in core and the first one is at most the length, so that
\* every split index is at most the length of what is left of the input and
\* no split_off aborts; each extraction continues where the one before
\* stopped, and the last one, at index 0, leaves the input empty.
C18_SplitInBounds ==
    /\ ~split.aborted
    /\ split.len > 0 =>
          /\ SplitIndex(split.tpw, split.cores - 1) <= split.len
          /\ SplitIndex(split.tpw, 0) = 0
          /\ \A c \in 0..(split.cores - 2) :
                SplitIndex(split.tpw, c) <= SplitIndex(split.tpw, c + 1)
    /\ Len(split.parts) = split.k
    /\ split.rest = IF split.k = 0 THEN split.len ELSE split.parts[split.k][1]
    /\ \A j \in 1..split.k :
          /\ split.parts[j][1] = SplitIndex(split.tpw, SplitCore(j))
          /\ split.parts[j][1] <= split.parts[j][2]
          /\ split.parts[j][2] = IF j = 1 THEN split.len ELSE split.parts[j - 1][1]
    /\ (split.len > 0 /\ split.k < split.cores) => ENABLED SplitStep
    /\ (split.len > 0 /\ split.k = split.cores) => split.rest = 0

\* thirteen elements have been dealt to twenty-two workers: every extraction
\* was in bounds, some took nothing, and nothing is left of the input
C18_Witness ==
    /\ split.len = 13 /\ split.cores = 22
    /\ split.k = split.cores
    /\ ~split.aborted
    /\ split.rest = 0
    /\ split.parts[1] = <<12, 13>>
    /\ \E j \in 1..split.k : split.parts[j][1] = split.parts[j][2]
====
